---- MODULE Spec2Model ----
(***************************************************************************)
(* A state-machine model of the "caohejing" TCP congestion control         *)
(* (src/tcp_caohejing.c): the per-connection struct caohejing, the host    *)
(* fields of tcp_sock / sock it reads and writes, the process-wide static  *)
(* counter `start` and the module parameter `conservation`, with one       *)
(* action per callback of struct tcp_congestion_ops.                       *)
(*                                                                         *)
(* Numbers.  TLC's integers are 32-bit and signed, the code's are u32 and  *)
(* u64.  Every quantity that can reach 2^31 (bandwidths, rates, cwnd) is   *)
(* therefore kept as a little-endian tuple of eight base-256 limbs, and    *)
(* the C operators on them (+, *, >>, /, <, truncation to u32) are spelled *)
(* out on limbs, wrapping modulo 2^64 or 2^32 exactly as the code does.    *)
(* Quantities the model keeps small (counters, time stamps, RTTs, the      *)
(* congestion state) are plain integers.  A 64-bit build is assumed:       *)
(* long and unsigned long are 64 bits wide.                                *)
(***************************************************************************)
EXTENDS Integers, Sequences, FiniteSets

(***************************************************************************)
(* Fixed-width unsigned arithmetic on limbs                                *)
(***************************************************************************)
Limbs == 8
Radix == 256

\* A non-negative int below 2^31 as a u64.
FromNat(n) ==
  << n % 256, (n \div 256) % 256, (n \div 65536) % 256, n \div 16777216,
     0, 0, 0, 0 >>

Zero64 == FromNat(0)

\* ~x on 64 bits.
Not64(x) == [i \in 1..Limbs |-> Radix - 1 - x[i]]

\* (u64)n for a signed n (s32 or long): sign extension, two's complement.
SignExt64(n) == IF n >= 0 THEN FromNat(n) ELSE Not64(FromNat(-n - 1))

\* (u32)x: the low 32 bits.
Trunc32(x) == [i \in 1..Limbs |-> IF i <= 4 THEN x[i] ELSE 0]

RECURSIVE AddLimbs(_, _, _, _)
AddLimbs(a, b, i, c) ==
  IF i > Limbs THEN << >>
  ELSE LET t == a[i] + b[i] + c
       IN  << t % Radix >> \o AddLimbs(a, b, i + 1, t \div Radix)

\* a + b modulo 2^64.
Add64(a, b) ==
  IF a = Zero64 THEN b ELSE IF b = Zero64 THEN a ELSE AddLimbs(a, b, 1, 0)

\* a - b modulo 2^64.
Sub64(a, b) == IF b = Zero64 THEN a ELSE AddLimbs(a, Not64(b), 1, 1)

\* a + b and a - b modulo 2^32 (u32 arithmetic).
Add32(a, b) == Trunc32(Add64(a, b))
Sub32(a, b) == Trunc32(Sub64(a, b))

\* One operand in limbs, the other an int 0 <= n < 2^23: limb by limb.
RECURSIVE MulSmallLimbs(_, _, _, _)
MulSmallLimbs(a, n, i, c) ==
  IF i > Limbs THEN << >>
  ELSE LET p == a[i] * n + c
       IN  << p % Radix >> \o MulSmallLimbs(a, n, i + 1, p \div Radix)

\* Both operands in limbs: column k of the schoolbook product.
RECURSIVE Col(_, _, _, _)
Col(a, b, k, i) ==
  IF i > k THEN 0 ELSE a[i] * b[k + 1 - i] + Col(a, b, k, i + 1)

RECURSIVE MulLimbs(_, _, _, _)
MulLimbs(a, b, k, c) ==
  IF k > Limbs THEN << >>
  ELSE LET p == Col(a, b, k, 1) + c
       IN  << p % Radix >> \o MulLimbs(a, b, k + 1, p \div Radix)

\* Whether x is below 2^23, and then its value as an int.
IsSmall(x) ==
  x[3] < 128 /\ x[4] = 0 /\ x[5] = 0 /\ x[6] = 0 /\ x[7] = 0 /\ x[8] = 0
SmallVal(x) == x[1] + 256 * x[2] + 65536 * x[3]

\* a * b modulo 2^64.
Mul64(a, b) ==
  IF a = Zero64 \/ b = Zero64 THEN Zero64
  ELSE IF IsSmall(b) THEN MulSmallLimbs(a, SmallVal(b), 1, 0)
  ELSE IF IsSmall(a) THEN MulSmallLimbs(b, SmallVal(a), 1, 0)
  ELSE MulLimbs(a, b, 1, 0)

RECURSIVE LtFrom(_, _, _)
LtFrom(a, b, i) ==
  IF i = 0 THEN FALSE
  ELSE IF a[i] # b[i] THEN a[i] < b[i]
  ELSE LtFrom(a, b, i - 1)

\* a < b, unsigned.
Lt64(a, b) == LtFrom(a, b, Limbs)

Max64(a, b) == IF Lt64(a, b) THEN b ELSE a
Min64(a, b) == IF Lt64(b, a) THEN b ELSE a

\* x / d for a divisor 0 < d < 2^23: long division, most significant limb first.
RECURSIVE DivLimbs(_, _, _, _)
DivLimbs(x, d, i, r) ==
  IF i = 0 THEN << >>
  ELSE LET t == r * Radix + x[i]
       IN  DivLimbs(x, d, i - 1, t % d) \o << t \div d >>

DivSmall(x, d) == DivLimbs(x, d, Limbs, 0)

\* x >> n.
RECURSIVE Shr64(_, _)
Shr64(x, n) ==
  IF n >= 8 THEN Shr64(Tail(x) \o << 0 >>, n - 8)
  ELSE IF n = 0 THEN x
  ELSE DivSmall(x, 2 ^ n)

\* One limb of a long division by any divisor d # 0: the eight bits of the
\* limb b are brought down from bit k, r is the running remainder and q the
\* quotient digit so far.
RECURSIVE DivDigit(_, _, _, _, _)
DivDigit(b, d, k, r, q) ==
  IF k < 0 THEN [r |-> r, q |-> q]
  ELSE LET r2 == Add64(Add64(r, r), FromNat((b \div (2 ^ k)) % 2))
       IN  IF Lt64(r2, d) THEN DivDigit(b, d, k - 1, r2, 2 * q)
           ELSE DivDigit(b, d, k - 1, Sub64(r2, d), 2 * q + 1)

RECURSIVE DivBigLimbs(_, _, _, _)
DivBigLimbs(x, d, i, r) ==
  IF i = 0 THEN << >>
  ELSE LET s == DivDigit(x[i], d, 7, r, 0)
       IN  DivBigLimbs(x, d, i - 1, s.r) \o << s.q >>

\* x / d, unsigned, for d # 0.
Div64(x, d) ==
  IF x = Zero64 THEN Zero64
  ELSE IF IsSmall(d) THEN DivSmall(x, SmallVal(d))
  ELSE DivBigLimbs(x, d, Limbs, Zero64)

IsEven(x) == x[1] % 2 = 0

(***************************************************************************)
(* Program constants                                                       *)
(***************************************************************************)
CAL_SCALE == 8
CAL_UNIT == 2 ^ CAL_SCALE
BW_SCALE == 24
BW_UNIT == 2 ^ BW_SCALE
UP == 0
DOWN == 1

\* enum tcp_ca_state of the host (net/tcp.h), ordered by severity.
TCP_CA_Open == 0
TCP_CA_Disorder == 1
TCP_CA_CWR == 2
TCP_CA_Recovery == 3
TCP_CA_Loss == 4
CaStates == {TCP_CA_Open, TCP_CA_Disorder, TCP_CA_CWR, TCP_CA_Recovery, TCP_CA_Loss}

\* w->min_rtt_us as init() leaves it: "unknown" (0x7fffffff).
MinRttUnknown == 2147483647

\* CAL_UNIT * 5 / 4 and CAL_UNIT * 3 / 4, the two gains the code assigns.
GainUp == (CAL_UNIT * 5) \div 4
GainDown == (CAL_UNIT * 3) \div 4

(***************************************************************************)
(* struct minmax of the host (linux/win_minmax.h, lib/win_minmax.c): three *)
(* samples s[0..2], best first, each a time t and a u32 value v.           *)
(***************************************************************************)
minmax_get(m) == m[0].v

minmax_reset(t, meas) == [i \in 0..2 |-> [t |-> t, v |-> meas]]

minmax_subwin_update(m, win, val) ==
  LET dt == val.t - m[0].t
  IN  IF dt > win
      THEN LET m1 == [i \in 0..2 |-> IF i = 0 THEN m[1] ELSE IF i = 1 THEN m[2] ELSE val]
           IN  IF val.t - m1[0].t > win
               THEN [i \in 0..2 |-> IF i = 0 THEN m1[1] ELSE IF i = 1 THEN m1[2] ELSE val]
               ELSE m1
      ELSE IF m[1].t = m[0].t /\ dt > win \div 4
      THEN [i \in 0..2 |-> IF i = 0 THEN m[0] ELSE val]
      ELSE IF m[2].t = m[1].t /\ dt > win \div 2
      THEN [i \in 0..2 |-> IF i = 2 THEN val ELSE m[i]]
      ELSE m

\* meas arrives through a u32 parameter: a wider argument loses its high bits.
minmax_running_max(m, win, t, meas) ==
  LET val == [t |-> t, v |-> Trunc32(meas)]
  IN  IF ~Lt64(val.v, m[0].v) \/ val.t - m[2].t > win
      THEN minmax_reset(t, val.v)
      ELSE IF ~Lt64(val.v, m[1].v)
      THEN minmax_subwin_update([i \in 0..2 |-> IF i = 0 THEN m[0] ELSE val], win, val)
      ELSE IF ~Lt64(val.v, m[2].v)
      THEN minmax_subwin_update([i \in 0..2 |-> IF i = 2 THEN val ELSE m[i]], win, val)
      ELSE minmax_subwin_update(m, win, val)

(***************************************************************************)
(* State                                                                   *)
(***************************************************************************)
VARIABLES
  w,              \* struct caohejing, the connection's private state
  tp,             \* the fields of struct tcp_sock the module touches
  sk,             \* the fields of struct sock the module touches
  icsk_ca_state,  \* inet_csk(sk)->icsk_ca_state, the host's congestion state
  start,          \* the function-static counter of cong_control (process-wide)
  conservation,   \* the module parameter (writable at run time, mode 0644)
  ret,            \* the value the last callback returned to the host
  fault,          \* TRUE once a call has trapped (division by zero)
  snap,           \* history: tp.snd_cwnd at the most recent ssthresh() (0 after init)
  call,           \* history: the last callback, its inputs and what it saw on entry
  peak_round,     \* history: w.rtt_cnt at the last sample equal to the filter's maximum
  calls           \* history: the cong_control calls of this behaviour so far

vars ==
  << w, tp, sk, icsk_ca_state, start, conservation, ret, fault, snap, call,
     peak_round, calls >>

(***************************************************************************)
(* Bounds of the model and the host's inputs                               *)
(***************************************************************************)
\* cong_control calls in one behaviour (the counter `start` is unbounded).
MaxCalls == 3
\* tp->delivered_mstamp and tp->delivered stay below these.
MaxStamp == 4
MaxDelivered == 2
\* cong_control calls in one behaviour of SpecWindow, enough for the round
\* counter to run past the filter's window of 10 rounds.
MaxRounds == 13

\* tcp_caohejing_init(): lines 41-58.
InitW ==
  [ gain |-> GainUp,
    state |-> UP,
    min_rtt_us |-> MinRttUnknown,
    prev_ca_state |-> TCP_CA_Open,
    packet_conservation |-> 0,
    rtt_cnt |-> 0,
    curr_bw |-> Zero64,
    last_bw |-> Zero64,
    prior_cwnd |-> Zero64,
    bw |-> minmax_reset(0, Zero64),
    next_rtt_delivered |-> 0,
    cycle_mstamp |-> 0 ]

(***************************************************************************)
(* tcp_caohejing_cong_control(), step by step                              *)
(***************************************************************************)
\* Lines 153-156.  before(a, b) is (s32)(a - b) < 0; the counters stay small.
UpdateRound(w0, tp0, rs) ==
  IF ~(rs.prior_delivered < w0.next_rtt_delivered)
  THEN [w0 EXCEPT !.next_rtt_delivered = tp0.delivered, !.rtt_cnt = @ + 1]
  ELSE w0

\* A variant of lines 158-159 that takes every positive RTT, smaller or not.
UpdateMinRttLast(w0, rs) ==
  IF rs.rtt_us > 0 THEN [w0 EXCEPT !.min_rtt_us = rs.rtt_us] ELSE w0

\* Lines 158-159.
UpdateMinRtt(w0, rs) ==
  IF rs.rtt_us > 0 /\ rs.rtt_us <= w0.min_rtt_us
  THEN [w0 EXCEPT !.min_rtt_us = rs.rtt_us]
  ELSE w0

\* Line 162: do_div() takes its divisor as a u32.
DivBase(rs) == Trunc32(SignExt64(rs.interval_us))

\* Lines 161-162, for a divisor that is not 0.  rs->delivered is an s32.
SampleBw(rs) ==
  Div64(Mul64(SignExt64(rs.delivered), FromNat(BW_UNIT)), DivBase(rs))

\* A variant of lines 163-166 that feeds the filter and leaves curr_bw.
FeedFilterLeavesCurr(w0, bw) ==
  IF Lt64(minmax_get(w0.bw), bw)
  THEN [w0 EXCEPT !.bw = minmax_running_max(w0.bw, 10, w0.rtt_cnt, bw)]
  ELSE w0

\* Lines 163-166.
FeedFilter(w0, bw) ==
  IF Lt64(minmax_get(w0.bw), bw)
  THEN LET m == minmax_running_max(w0.bw, 10, w0.rtt_cnt, bw)
       IN  [w0 EXCEPT !.bw = m, !.curr_bw = minmax_get(m)]
  ELSE w0

\* tcp_stamp_us_delta() of the host: max_t(s64, t1 - t0, 0).
tcp_stamp_us_delta(t1, t0) == IF t1 - t0 > 0 THEN t1 - t0 ELSE 0

\* is_next_cycle_phase(): lines 85-98.  The new w and the value returned.
is_next_cycle_phase(w0, tp0) ==
  LET is_full_length ==
        tcp_stamp_us_delta(tp0.delivered_mstamp, w0.cycle_mstamp) > w0.min_rtt_us
  IN  IF w0.cycle_mstamp = 0 \/ is_full_length
      THEN [ w |-> [w0 EXCEPT !.cycle_mstamp = tp0.delivered_mstamp,
                              !.last_bw = w0.curr_bw,
                              !.curr_bw = minmax_get(w0.bw)],
             r |-> TRUE ]
      ELSE [ w |-> w0, r |-> FALSE ]

\* A variant of the switch whose DOWN case compares the other way round.
GainSwitchSwapped(w0, bw) ==
  IF w0.state = UP
  THEN IF Lt64(Mul64(FromNat(21), w0.last_bw), Mul64(FromNat(20), bw))
       THEN [w0 EXCEPT !.gain = GainUp]
       ELSE [w0 EXCEPT !.gain = GainDown, !.state = DOWN]
  ELSE IF w0.state = DOWN
  THEN IF Lt64(Mul64(FromNat(19), w0.last_bw), Mul64(FromNat(20), bw))
       THEN [w0 EXCEPT !.gain = GainUp, !.state = UP]
       ELSE [w0 EXCEPT !.gain = GainDown]
  ELSE w0

\* The switch of lines 172-192.
GainSwitch(w0, bw) ==
  IF w0.state = UP
  THEN IF Lt64(Mul64(FromNat(21), w0.last_bw), Mul64(FromNat(20), bw))
       THEN [w0 EXCEPT !.gain = GainUp]
       ELSE [w0 EXCEPT !.gain = GainDown, !.state = DOWN]
  ELSE IF w0.state = DOWN
  THEN IF Lt64(Mul64(FromNat(20), bw), Mul64(FromNat(19), w0.last_bw))
       THEN [w0 EXCEPT !.gain = GainUp, !.state = UP]
       ELSE [w0 EXCEPT !.gain = GainDown]
  ELSE w0

\* A variant of line 171 that runs the switch on every call.
GainTransitionAlways(w0, bw, st) == GainSwitch(w0, bw)

\* A variant of line 171 that waits for one call more.
GainTransitionLate(w0, bw, st) == IF st > 4 THEN GainSwitch(w0, bw) ELSE w0

\* Line 171: the switch runs once the static counter has passed 3.
GainTransition(w0, bw, st) == IF st > 3 THEN GainSwitch(w0, bw) ELSE w0

\* caohejing_min_tso_segs(): lines 126-130.
caohejing_min_tso_rate == 1200000
caohejing_min_tso_segs(sk0) ==
  IF Lt64(sk0.sk_pacing_rate, FromNat(caohejing_min_tso_rate \div 8)) THEN 1 ELSE 2

\* GSO_MAX_SIZE - 1 - MAX_TCP_HEADER of the host (65536 - 1 - 320).
GsoBytesCap == 65215
\* The cap 0x7F of line 140.
TsoSegsCap == 127

\* caohejing_tso_segs_goal(): lines 132-141.
caohejing_tso_segs_goal(sk0, tp0) ==
  LET bytes == Min64(Shr64(sk0.sk_pacing_rate, sk0.sk_pacing_shift), FromNat(GsoBytesCap))
      bytesN == bytes[1] + 256 * bytes[2] + 65536 * bytes[3]
      segs == IF bytesN \div tp0.mss_cache > caohejing_min_tso_segs(sk0)
              THEN bytesN \div tp0.mss_cache
              ELSE caohejing_min_tso_segs(sk0)
  IN  IF segs < TsoSegsCap THEN segs ELSE TsoSegsCap

\* A variant of lines 195-198 that adds 1 and does not clear the low bit.
BaseCwndUnrounded(bw, min_rtt_us, segs) ==
  LET bdp == Mul64(bw, FromNat(min_rtt_us))
      pkts == Shr64(Add64(Shr64(Mul64(bdp, FromNat(CAL_UNIT)), CAL_SCALE),
                          FromNat(BW_UNIT - 1)), BW_SCALE)
      c1 == Max64(FromNat(2), Trunc32(pkts))
      c2 == Add32(c1, FromNat(3 * segs))
  IN  Add32(c2, FromNat(1))

\* Lines 195-198: the cwnd written at line 199.  The division by BW_UNIT,
\* a power of two, is the shift by BW_SCALE.
BaseCwnd(bw, min_rtt_us, segs) ==
  LET bdp == Mul64(bw, FromNat(min_rtt_us))
      pkts == Shr64(Add64(Shr64(Mul64(bdp, FromNat(CAL_UNIT)), CAL_SCALE),
                          FromNat(BW_UNIT - 1)), BW_SCALE)
      c1 == Max64(FromNat(2), Trunc32(pkts))
      c2 == Add32(c1, FromNat(3 * segs))
      c3 == Add32(c2, FromNat(1))
  IN  [c3 EXCEPT ![1] = @ - (@ % 2)]

\* Lines 202-205.
CycleReset(w0, is_next) ==
  IF is_next THEN [w0 EXCEPT !.rtt_cnt = 0, !.bw = minmax_reset(0, Zero64)] ELSE w0

\* Lines 210-212: max_t(s32, cwnd - rs->losses, 1) on the u32 difference.
LossAdjust(cwnd, rs) ==
  IF rs.losses > 0
  THEN LET d == Sub32(cwnd, FromNat(rs.losses))
       IN  IF d[4] >= 128 \/ d = Zero64 THEN FromNat(1) ELSE d
  ELSE cwnd

\* tcp_packets_in_flight(tp) + rs->acked_sacked, in u32.
FlightPlusAcked(tp0, rs) == FromNat(tp0.packets_in_flight + rs.acked_sacked)

\* A variant of lines 213-222 whose entry edge leaves packet_conservation.
RecoveryEdgesNoHold(c, rs, ca_state, prev_ca_state) ==
  IF ca_state = TCP_CA_Recovery /\ prev_ca_state # TCP_CA_Recovery
  THEN [ c EXCEPT !.cwnd = FlightPlusAcked(c.tp, rs),
                  !.w.next_rtt_delivered = c.tp.delivered ]
  ELSE IF prev_ca_state >= TCP_CA_Recovery /\ ca_state < TCP_CA_Recovery
  THEN [ c EXCEPT !.tp.snd_cwnd = Max64(c.w.prior_cwnd, FlightPlusAcked(c.tp, rs)),
                  !.w.state = UP,
                  !.w.gain = GainUp,
                  !.w.packet_conservation = 0 ]
  ELSE c

\* A variant of lines 213-222 whose exit edge is taken from Loss only.
RecoveryEdgesFromLoss(c, rs, ca_state, prev_ca_state) ==
  IF ca_state = TCP_CA_Recovery /\ prev_ca_state # TCP_CA_Recovery
  THEN [ c EXCEPT !.cwnd = FlightPlusAcked(c.tp, rs),
                  !.w.next_rtt_delivered = c.tp.delivered,
                  !.w.packet_conservation = 1 ]
  ELSE IF prev_ca_state > TCP_CA_Recovery /\ ca_state < TCP_CA_Recovery
  THEN [ c EXCEPT !.tp.snd_cwnd = Max64(c.w.prior_cwnd, FlightPlusAcked(c.tp, rs)),
                  !.w.state = UP,
                  !.w.gain = GainUp,
                  !.w.packet_conservation = 0 ]
  ELSE c

\* Lines 213-222 on c = [w, tp, cwnd]: the entry and the exit edge of recovery.
RecoveryEdges(c, rs, ca_state, prev_ca_state) ==
  IF ca_state = TCP_CA_Recovery /\ prev_ca_state # TCP_CA_Recovery
  THEN [ c EXCEPT !.cwnd = FlightPlusAcked(c.tp, rs),
                  !.w.next_rtt_delivered = c.tp.delivered,
                  !.w.packet_conservation = 1 ]
  ELSE IF prev_ca_state >= TCP_CA_Recovery /\ ca_state < TCP_CA_Recovery
  THEN [ c EXCEPT !.tp.snd_cwnd = Max64(c.w.prior_cwnd, FlightPlusAcked(c.tp, rs)),
                  !.w.state = UP,
                  !.w.gain = GainUp,
                  !.w.packet_conservation = 0 ]
  ELSE c

\* A variant of lines 224-228 that leaves the cwnd of line 199 in place.
ConservationHoldKeepsBase(c, rs) ==
  IF c.w.packet_conservation = 1
  THEN [ c EXCEPT !.w.state = DOWN, !.w.gain = GainDown ]
  ELSE c

\* A variant of lines 224-228 that sets the phase and leaves the gain.
ConservationHoldKeepsGain(c, rs) ==
  IF c.w.packet_conservation = 1
  THEN [ c EXCEPT !.w.state = DOWN,
                  !.tp.snd_cwnd = Max64(c.cwnd, FlightPlusAcked(c.tp, rs)) ]
  ELSE c

\* Lines 224-228.
ConservationHold(c, rs) ==
  IF c.w.packet_conservation = 1
  THEN [ c EXCEPT !.w.state = DOWN,
                  !.w.gain = GainDown,
                  !.tp.snd_cwnd = Max64(c.cwnd, FlightPlusAcked(c.tp, rs)) ]
  ELSE c

\* Lines 207-228: skipped as a whole when the module parameter is 0.
Conservative(c, rs, ca_state, prev_ca_state, cons) ==
  IF cons = 0 THEN c
  ELSE ConservationHold(
         RecoveryEdges([c EXCEPT !.cwnd = LossAdjust(c.cwnd, rs)],
                       rs, ca_state, prev_ca_state), rs)

\* USEC_PER_SEC / 100 * (100 - 1) of line 107.
USEC_PER_SEC == 1000000
PacingScale == (USEC_PER_SEC \div 100) * (100 - 1)

\* caohejing_rate_bytes_per_sec(): lines 100-109.
caohejing_rate_bytes_per_sec(mss, rate, gain) ==
  Shr64(Mul64(Shr64(Mul64(Mul64(rate, FromNat(mss)), FromNat(gain)), CAL_SCALE),
              FromNat(PacingScale)), BW_SCALE)

\* caohejing_bw_to_pacing_rate(): lines 111-118.  bw is a u32 parameter.
caohejing_bw_to_pacing_rate(sk0, mss, bw, gain) ==
  Min64(caohejing_rate_bytes_per_sec(mss, Trunc32(bw), gain), sk0.sk_max_pacing_rate)

\* caohejing_set_pacing_rate(): lines 120-124.  bw is a u32 parameter.
caohejing_set_pacing_rate(sk0, mss, bw, gain) ==
  [sk0 EXCEPT !.sk_pacing_rate = caohejing_bw_to_pacing_rate(sk0, mss, Trunc32(bw), gain)]

\* Line 233.
ClampCwnd(tp0) ==
  [tp0 EXCEPT !.snd_cwnd = Min64(tp0.snd_cwnd, tp0.snd_cwnd_clamp)]

\* Lines 163-233, given the sample's bandwidth sbw (line 162) and w1 as
\* lines 153-159 left it.  The result: the new w, tp and sk, and what the
\* call computed on the way (bw of line 169, is_next, the cwnd of line 199).
ControlFrom(w1, tp0, sk0, ca_state, st, cons, rs, sbw) ==
  LET prev_ca_state == w1.prev_ca_state
      old_cwnd == tp0.snd_cwnd
      w3 == FeedFilter(w1, sbw)
      nx == is_next_cycle_phase(w3, tp0)
      bw == minmax_get(nx.w.bw)
      w5 == GainTransition(nx.w, bw, st)
      base == BaseCwnd(bw, w5.min_rtt_us, caohejing_tso_segs_goal(sk0, tp0))
      c0 == [ w |-> CycleReset(w5, nx.r),
              tp |-> [tp0 EXCEPT !.snd_cwnd = base],
              cwnd |-> old_cwnd ]
      c1 == Conservative(c0, rs, ca_state, prev_ca_state, cons)
  IN  [ w |-> [c1.w EXCEPT !.prev_ca_state = ca_state],
        tp |-> ClampCwnd(c1.tp),
        sk |-> caohejing_set_pacing_rate(sk0, tp0.mss_cache, bw, c1.w.gain),
        bw |-> bw,
        is_next |-> nx.r,
        fed |-> Lt64(minmax_get(w1.bw), sbw),
        base |-> base ]

(***************************************************************************)
(* What the host supplies                                                  *)
(***************************************************************************)
Max32 == Trunc32(Not64(Zero64))

\* A rate sample: rs->delivered (s32), rs->interval_us and rs->rtt_us (long,
\* the host passes -1 for "none"), rs->losses, rs->acked_sacked and
\* rs->prior_delivered (u32).
Sample(d, i, r, l, a, p) ==
  [ delivered |-> d, interval_us |-> i, rtt_us |-> r, losses |-> l,
    acked_sacked |-> a, prior_delivered |-> p ]

NoSample == Sample(0, 0, 0, 0, 0, 0)

\* The history record of a callback that is not cong_control.
Called(op, new_state) ==
  [ op |-> op, rs |-> NoSample, ca_state |-> new_state,
    prev_ca_state |-> w.prev_ca_state,
    sbw |-> Zero64, bw |-> Zero64, fed |-> FALSE, is_next |-> FALSE,
    base |-> Zero64 ]

\* The socket as the host hands it to init(): cwnd 10 (TCP_INIT_CWND), the
\* cwnd cap and the maximum pacing rate from the given sets.
HostTp(clamps) ==
  [ snd_cwnd : {FromNat(10)},
    snd_cwnd_clamp : clamps,
    snd_ssthresh : {MinRttUnknown},
    delivered : {0},
    delivered_mstamp : {0},
    packets_in_flight : {0},
    mss_cache : {1460} ]
HostSk(rates) ==
  [ sk_pacing_rate : {Not64(Zero64)},
    sk_max_pacing_rate : rates,
    sk_pacing_shift : {10} ]

(***************************************************************************)
(* The callbacks                                                           *)
(***************************************************************************)
\* The state once the host has set the socket up and called init().
\* The static counter `start` belongs to the process, not to the connection:
\* the connection modelled is the first one (start = 0) or a later one, the
\* calls of earlier connections having taken the counter to starts.
InitFor(clamps, rates, starts) ==
  /\ w = InitW
  /\ tp \in HostTp(clamps)
  /\ sk \in HostSk(rates)
  /\ icsk_ca_state = TCP_CA_Open
  /\ start \in starts
  /\ calls = 0
  /\ conservation = 1
  /\ ret = 0
  /\ fault = FALSE
  /\ snap = Zero64
  /\ peak_round = 0
  /\ call = [ op |-> "init", rs |-> NoSample, ca_state |-> TCP_CA_Open,
              prev_ca_state |-> TCP_CA_Open,
              sbw |-> Zero64, bw |-> Zero64, fed |-> FALSE, is_next |-> FALSE,
              base |-> Zero64 ]

\* tcp_caohejing_init() on a socket that is already running (the congestion
\* control is chosen again): lines 41-58.  The static counter is not touched.
tcp_caohejing_init ==
  /\ ~fault
  /\ w' = InitW
  /\ snap' = Zero64
  /\ peak_round' = 0
  /\ ret' = 0
  /\ call' = [Called("init", icsk_ca_state) EXCEPT !.prev_ca_state = TCP_CA_Open]
  /\ UNCHANGED << tp, sk, icsk_ca_state, start, conservation, fault, calls >>

\* A variant of lines 60-67 that resets the cwnd in Recovery as well.
StateTpFromRecovery(tp0, new_state) ==
  IF new_state >= TCP_CA_Recovery
  THEN [tp0 EXCEPT !.snd_cwnd = FromNat(tp0.packets_in_flight + 1)]
  ELSE tp0

\* tcp_caohejing_state(): lines 60-67.
StateTp(tp0, new_state) ==
  IF new_state = TCP_CA_Loss
  THEN [tp0 EXCEPT !.snd_cwnd = FromNat(tp0.packets_in_flight + 1)]
  ELSE tp0

\* The host's tcp_set_ca_state(): the callback, then icsk_ca_state = new_state.
SetStateTo(states) ==
  /\ ~fault
  /\ \E new_state \in states :
       /\ tp' = StateTp(tp, new_state)
       /\ icsk_ca_state' = new_state
       /\ call' = Called("set_state", new_state)
  /\ ret' = 0
  /\ UNCHANGED << w, sk, start, conservation, fault, snap, peak_round, calls >>

tcp_caohejing_state == SetStateTo(CaStates)

\* tcp_caohejing_undo_cwnd(): lines 69-74.  The value returned is a u32.
UndoValue(w0) == Max64(FromNat(2), w0.prior_cwnd)

tcp_caohejing_undo_cwnd ==
  /\ ~fault
  /\ ret' = UndoValue(w)
  /\ call' = Called("undo_cwnd", icsk_ca_state)
  /\ UNCHANGED << w, tp, sk, icsk_ca_state, start, conservation, fault, snap,
                  peak_round, calls >>

\* A variant of lines 76-83 that saves nothing.
SsthreshKeeps(w0, tp0) == w0

\* tcp_caohejing_ssthresh(): lines 76-83.
SsthreshW(w0, tp0) == [w0 EXCEPT !.prior_cwnd = tp0.snd_cwnd]

tcp_caohejing_ssthresh ==
  /\ ~fault
  /\ w' = SsthreshW(w, tp)
  /\ ret' = tp.snd_ssthresh
  /\ snap' = tp.snd_cwnd
  /\ peak_round' = peak_round
  /\ call' = Called("ssthresh", icsk_ca_state)
  /\ UNCHANGED << tp, sk, icsk_ca_state, start, conservation, fault, calls >>

\* The module parameter `conservation` is written from outside (lines 22-23).
SetConservation ==
  /\ ~fault
  /\ conservation' = 1 - conservation
  /\ ret' = 0
  /\ call' = Called("param", icsk_ca_state)
  /\ UNCHANGED << w, tp, sk, icsk_ca_state, start, fault, snap, peak_round, calls >>

\* The host moves its counters before it calls cong_control.
HostMoves(tp0, infl, dt, dd) ==
  [tp0 EXCEPT !.packets_in_flight = infl,
              !.delivered_mstamp = @ + dt,
              !.delivered = @ + dd]

\* Line 162 with a divisor of 0 is undefined: the build either traps (x86:
\* divide error) or goes on with a quotient of 0 (arm64: udiv).
SampleBwOrZero(rs) == IF DivBase(rs) = Zero64 THEN Zero64 ELSE SampleBw(rs)

\* tcp_caohejing_cong_control(): lines 143-237, for the sample rs and the
\* socket tpH as the host has left it.
CongControlOn(rs, tpH) ==
  /\ \E sbw \in {SampleBwOrZero(rs)} :
     \E r \in {ControlFrom(UpdateMinRtt(UpdateRound(w, tpH, rs), rs), tpH, sk,
                           icsk_ca_state, start, conservation, rs, sbw)} :
       /\ w' = r.w
       /\ tp' = r.tp
       /\ sk' = r.sk
       /\ call' = [ op |-> "cong_control", rs |-> rs, ca_state |-> icsk_ca_state,
                    prev_ca_state |-> w.prev_ca_state,
                    sbw |-> sbw, bw |-> r.bw, fed |-> r.fed,
                    is_next |-> r.is_next, base |-> r.base ]
       /\ peak_round' = IF r.is_next THEN 0
                        ELSE IF sbw = r.bw THEN r.w.rtt_cnt
                        ELSE peak_round
  /\ start' = start + 1
  /\ calls' = calls + 1
  /\ ret' = 0
  /\ UNCHANGED << icsk_ca_state, conservation, snap, fault >>

\* The call that traps at line 162: lines 153-159 have run.
CongControlTrapOn(rs, tpH) ==
  /\ DivBase(rs) = Zero64
  /\ w' = UpdateMinRtt(UpdateRound(w, tpH, rs), rs)
  /\ tp' = tpH
  /\ fault' = TRUE
  /\ call' = [ op |-> "cong_control", rs |-> rs, ca_state |-> icsk_ca_state,
               prev_ca_state |-> w.prev_ca_state,
               sbw |-> Zero64, bw |-> Zero64, fed |-> FALSE,
               is_next |-> FALSE, base |-> Zero64 ]
  /\ calls' = calls + 1
  /\ ret' = 0
  /\ UNCHANGED << sk, start, icsk_ca_state, conservation, snap, peak_round >>

\* The host's inputs of one call, drawn from the given sets, in a behaviour
\* of at most max calls.
CongControlUpTo(max, samples, flights, dts, dds) ==
  /\ ~fault
  /\ calls < max
  /\ \E rs \in samples, infl \in flights, dt \in dts, dd \in dds :
       /\ tp.delivered_mstamp + dt <= MaxStamp
       /\ tp.delivered + dd <= MaxDelivered
       /\ rs.prior_delivered <= tp.delivered + dd
       /\ CongControlOn(rs, HostMoves(tp, infl, dt, dd))

CongControlFor(samples, flights, dts, dds) ==
  CongControlUpTo(MaxCalls, samples, flights, dts, dds)

CongControlTrapFor(samples, flights, dts, dds) ==
  /\ ~fault
  /\ calls < MaxCalls
  /\ \E rs \in samples, infl \in flights, dt \in dts, dd \in dds :
       /\ tp.delivered_mstamp + dt <= MaxStamp
       /\ tp.delivered + dd <= MaxDelivered
       /\ rs.prior_delivered <= tp.delivered + dd
       /\ CongControlTrapOn(rs, HostMoves(tp, infl, dt, dd))


(***************************************************************************)
(* The host's inputs                                                       *)
(***************************************************************************)
\* The first value of `start` with which line 171 runs the switch.
WarmedUp == 4

\* The cwnd cap and the maximum pacing rate: unlimited, or low enough to bind.
Unclamped == {Max32}
Clamps == {FromNat(7), Max32}
Unpaced == {Not64(Zero64)}
Rates == {FromNat(100000), Not64(Zero64)}

\* Samples of bandwidth 0, 2^24 and 2^25 (delivered / interval_us, scaled by
\* BW_UNIT) carrying the RTTs 2, 1 and 0 (none).
HostSamples ==
  { Sample(0, 1, 2, 0, 1, 0), Sample(1, 1, 1, 0, 1, 0), Sample(2, 1, 0, 0, 1, 0) }

\* (delivered, interval_us): bandwidths 0, 2^24, 2^25 and 2^32, a zero and a
\* negative interval.
BwKinds == { <<0, 1>>, <<1, 1>>, <<2, 1>>, <<256, 1>>, <<1, 0>>, <<256, -1>> }
Rtts == {-1, 0, 1, 2}
\* Each bandwidth with an RTT of 1 us, and each RTT with one bandwidth.
EstimatorSamples ==
  { Sample(k[1], k[2], 1, 0, 1, 0) : k \in BwKinds }
  \cup { Sample(1, 1, r, 0, 1, 0) : r \in Rtts }

\* One bandwidth; a sample without loss and one with a loss, the
\* acked+SACKed counts 1 and 2.
RecoverySamples == { Sample(1, 1, 1, 0, 1, 0), Sample(1, 1, 1, 1, 2, 0) }

\* The same positive bandwidth in every sample, no losses; the RTT varies.
ConstantSamples == { Sample(1, 1, r, 0, 1, 0) : r \in {1, 2} }

(***************************************************************************)
(* Spec: the five callbacks of struct tcp_congestion_ops in any order.     *)
(***************************************************************************)
Init == InitFor(Unclamped, Unpaced, {WarmedUp})

tcp_caohejing_cong_control == CongControlFor(HostSamples, {5}, {1}, {0})

Next ==
  \/ tcp_caohejing_init
  \/ tcp_caohejing_state
  \/ tcp_caohejing_undo_cwnd
  \/ tcp_caohejing_ssthresh
  \/ tcp_caohejing_cong_control

Spec == Init /\ [][Next]_vars

(***************************************************************************)
(* SpecGain: what moves gain and phase -- the switch of cong_control       *)
(* before and after the warm-up, the recovery edges, the parameter.        *)
(***************************************************************************)
InitGain == InitFor(Unclamped, Unpaced, {0, WarmedUp})

StateGain == SetStateTo({TCP_CA_Open, TCP_CA_Recovery})

CongControlGain == CongControlFor(HostSamples, {5}, {0, 2}, {0})

NextGain ==
  \/ tcp_caohejing_init
  \/ StateGain
  \/ SetConservation
  \/ CongControlGain

SpecGain == InitGain /\ [][NextGain]_vars

(***************************************************************************)
(* SpecEstimator: cong_control alone, over samples that vary bandwidth,    *)
(* interval and RTT, on both kinds of build for a zero interval.           *)
(***************************************************************************)
InitEstimator == InitFor(Unclamped, Rates, {0, WarmedUp})

CongControlEstimator == CongControlFor(EstimatorSamples, {5}, {0, 2}, {0})

CongControlTrap == CongControlTrapFor(EstimatorSamples, {5}, {0, 2}, {0})

NextEstimator ==
  \/ CongControlEstimator
  \/ CongControlTrap

SpecEstimator == InitEstimator /\ [][NextEstimator]_vars

(***************************************************************************)
(* SpecRecovery: the host enters and leaves Recovery and Loss, saves the   *)
(* cwnd and toggles the parameter between calls of cong_control.           *)
(***************************************************************************)
InitRecovery == InitFor(Clamps, Unpaced, {WarmedUp})

StateRecovery == SetStateTo({TCP_CA_Open, TCP_CA_Recovery, TCP_CA_Loss})

CongControlRecovery == CongControlFor(RecoverySamples, {5}, {1}, {0, 1})

NextRecovery ==
  \/ StateRecovery
  \/ tcp_caohejing_ssthresh
  \/ SetConservation
  \/ CongControlRecovery

SpecRecovery == InitRecovery /\ [][NextRecovery]_vars

(***************************************************************************)
(* SpecConstant: a steady flow -- the same bandwidth in every sample, no   *)
(* loss, the host in Open throughout; the calls run into and past the      *)
(* warm-up.                                                                *)
(***************************************************************************)
InitConstant == InitFor(Unclamped, Unpaced, {2, 3, WarmedUp})

CongControlConstant == CongControlFor(ConstantSamples, {5}, {0, 1, 2}, {0, 1})

NextConstant == CongControlConstant

SpecConstant == InitConstant /\ [][NextConstant]_vars

(***************************************************************************)
(* SpecWindow: a long run of rounds within one cycle -- a sample in every  *)
(* round, the time stamp hardly moving.                                    *)
(***************************************************************************)
\* Bandwidths 2^25 and 2^24 with an RTT of 4 us.
WindowSamples == { Sample(2, 1, 4, 0, 1, 0), Sample(1, 1, 4, 0, 1, 0) }

InitWindow == InitFor(Unclamped, Unpaced, {WarmedUp})

CongControlWindow == CongControlUpTo(MaxRounds, WindowSamples, {5}, {0, 1}, {0})

NextWindow == CongControlWindow

SpecWindow == InitWindow /\ [][NextWindow]_vars

(***************************************************************************)
(* Properties                                                              *)
(***************************************************************************)
\* The last callback was a cong_control call that ran to its end.
Completed == call.op = "cong_control" /\ ~fault

\* C1: in every reachable state the gain is 320 or 192, and it is 320
\* exactly when the phase is UP (192 exactly when the phase is DOWN).
C1_GainMatchesPhase ==
  /\ w.gain \in {GainUp, GainDown}
  /\ w.gain = GainUp <=> w.state = UP
  /\ w.gain = GainDown <=> w.state = DOWN

\* A call during the warm-up (the switch did not run) in which the
\* packet-conservation hold forced the phase DOWN.
C1_Witness ==
  /\ Completed
  /\ start <= WarmedUp
  /\ conservation = 1
  /\ w.packet_conservation = 1
  /\ w.state = DOWN
  /\ w.gain = GainDown

\* C2 as stated: after every cong_control call the cwnd is even and at
\* least 2.
C2_AlwaysEven ==
  Completed => IsEven(tp.snd_cwnd) /\ ~Lt64(tp.snd_cwnd, FromNat(2))

\* C2, amended: the cwnd computed from the bandwidth-delay product (line
\* 199) is even and at least 2, and the call ends with the smaller of it
\* and the cap unless the conservative handling wrote the cwnd (an exit
\* edge, or packet_conservation set); so the final cwnd is even and at
\* least 2 whenever it was not overwritten and the cap is not below it.
C2_EvenUnlessOverwritten ==
  Completed =>
    LET exit == call.prev_ca_state >= TCP_CA_Recovery /\ call.ca_state < TCP_CA_Recovery
        kept == conservation = 0 \/ (w.packet_conservation = 0 /\ ~exit)
    IN  /\ IsEven(call.base)
        /\ ~Lt64(call.base, FromNat(2))
        /\ kept => tp.snd_cwnd = Min64(call.base, tp.snd_cwnd_clamp)
        /\ (kept /\ ~Lt64(tp.snd_cwnd_clamp, call.base)) =>
             IsEven(tp.snd_cwnd) /\ ~Lt64(tp.snd_cwnd, FromNat(2))

\* A call in conservative mode, with a loss in its sample, that left the
\* computed cwnd in place.
C2_Witness ==
  /\ Completed
  /\ conservation = 1
  /\ w.packet_conservation = 0
  /\ call.prev_ca_state < TCP_CA_Recovery
  /\ call.rs.losses > 0
  /\ tp.snd_cwnd = call.base
  /\ Lt64(FromNat(2), tp.snd_cwnd)

\* C3: in conservative mode, a call that finds the host in Recovery when
\* the previous call did not ends with cwnd = packets in flight + acked
\* (or the cap, if that is smaller), packet_conservation set and the round
\* marker at the host's delivered counter.
C3_RecoveryEntry ==
  ( /\ Completed
    /\ conservation = 1
    /\ call.ca_state = TCP_CA_Recovery
    /\ call.prev_ca_state # TCP_CA_Recovery ) =>
    /\ tp.snd_cwnd = Min64(FlightPlusAcked(tp, call.rs), tp.snd_cwnd_clamp)
    /\ w.packet_conservation = 1
    /\ w.next_rtt_delivered = tp.delivered

\* An entry edge with a loss in the sample, the cwnd within the cap, and a
\* round marker that only the edge can have moved to 2.
C3_Witness ==
  /\ Completed
  /\ conservation = 1
  /\ call.ca_state = TCP_CA_Recovery
  /\ call.prev_ca_state # TCP_CA_Recovery
  /\ call.rs.losses > 0
  /\ tp.snd_cwnd = FlightPlusAcked(tp, call.rs)
  /\ w.packet_conservation = 1
  /\ tp.delivered = 2
  /\ w.next_rtt_delivered = 2

\* C4: in conservative mode, a call that finds the host below Recovery when
\* the previous call recorded Recovery or Loss ends with cwnd =
\* max(prior_cwnd, packets in flight + acked) (or the cap, if that is
\* smaller), phase UP, gain 320 and packet_conservation clear.
C4_RecoveryExit ==
  ( /\ Completed
    /\ conservation = 1
    /\ call.prev_ca_state >= TCP_CA_Recovery
    /\ call.ca_state < TCP_CA_Recovery ) =>
    /\ tp.snd_cwnd = Min64(Max64(w.prior_cwnd, FlightPlusAcked(tp, call.rs)),
                           tp.snd_cwnd_clamp)
    /\ w.state = UP
    /\ w.gain = GainUp
    /\ w.packet_conservation = 0

\* An exit edge out of Recovery on which the saved cwnd is the larger value.
C4_Witness ==
  /\ Completed
  /\ conservation = 1
  /\ call.prev_ca_state = TCP_CA_Recovery
  /\ call.ca_state = TCP_CA_Open
  /\ Lt64(FlightPlusAcked(tp, call.rs), w.prior_cwnd)
  /\ tp.snd_cwnd = w.prior_cwnd
  /\ w.state = UP

\* C5 as stated: a cong_control call whose sample interval is zero or
\* negative does not fault and does not update the bandwidth filter or
\* curr_bw from the sample (lines 164-165 do not run).
C5_IntervalGuarded ==
  (call.op = "cong_control" /\ call.rs.interval_us <= 0) => ~fault /\ ~call.fed

\* C6: on every step but init(), min_rtt_us does not rise: a cong_control
\* call with rtt_us > 0 leaves min(previous, rtt_us), any other step leaves
\* it as it was.
C6_MinRttNeverRises ==
  [][ call'.op # "init" =>
        IF call'.op = "cong_control" /\ call'.rs.rtt_us > 0
        THEN w'.min_rtt_us =
               IF call'.rs.rtt_us < w.min_rtt_us THEN call'.rs.rtt_us ELSE w.min_rtt_us
        ELSE w'.min_rtt_us = w.min_rtt_us ]_vars

\* A call with an RTT of 2 us that came after the minimum had reached 1 us.
C6_Witness ==
  /\ Completed
  /\ call.rs.rtt_us = 2
  /\ w.min_rtt_us = 1

\* C7: with the same positive bandwidth in every sample, no loss and the
\* host in Open, the phase never goes from DOWN back to UP: it changes at
\* most once (UP to DOWN) and then stays, across cycle boundaries too.
C7_NoFlapping == [][w.state = DOWN => w'.state = DOWN]_vars

\* The switch has run at least twice, the last call crossed a cycle
\* boundary, and the phase is DOWN.
C7_Witness ==
  /\ Completed
  /\ start >= WarmedUp + 2
  /\ call.is_next
  /\ w.state = DOWN

\* C8 as stated: after a cong_control call that fed its sample to the
\* filter (the sample is the new maximum), the pacing rate is
\* min((((bw * mss * gain) >> 8) * 990000) >> 24, max_pacing_rate) with bw
\* the sample's full 64-bit bandwidth.
C8_FullWidthRate ==
  (Completed /\ call.fed) =>
    sk.sk_pacing_rate =
      Min64(caohejing_rate_bytes_per_sec(tp.mss_cache, call.sbw, w.gain),
            sk.sk_max_pacing_rate)

\* C9: prior_cwnd changes only in ssthresh() and init(); ssthresh() saves
\* the cwnd, returns the host's ssthresh and leaves the socket alone, and a
\* second ssthresh() in a row leaves the same snapshot; undo_cwnd() returns
\* max(2, cwnd at the most recent ssthresh()) and changes nothing.
C9_SnapshotAndUndo ==
  [][ /\ w'.prior_cwnd # w.prior_cwnd => call'.op \in {"ssthresh", "init"}
      /\ call'.op = "ssthresh" =>
           /\ w'.prior_cwnd = tp.snd_cwnd
           /\ ret' = tp.snd_ssthresh
           /\ tp' = tp
      /\ (call.op = "ssthresh" /\ call'.op = "ssthresh") =>
           w'.prior_cwnd = w.prior_cwnd
      /\ call'.op = "undo_cwnd" =>
           /\ ret' = Max64(FromNat(2), snap)
           /\ UNCHANGED << w, tp, sk, icsk_ca_state, start, conservation >> ]_vars

\* undo_cwnd() returned a snapshot that the cwnd has since moved away from.
C9_Witness ==
  /\ call.op = "undo_cwnd"
  /\ ret = snap
  /\ Lt64(FromNat(2), snap)
  /\ tp.snd_cwnd # snap

\* C10: set_state(Loss) sets the cwnd to packets in flight + 1, set_state
\* with any other state leaves the cwnd, and neither changes a field of
\* struct caohejing.
C10_SetStateFrame ==
  [][ call'.op = "set_state" =>
        /\ w' = w
        /\ tp'.snd_cwnd =
             IF call'.ca_state = TCP_CA_Loss
             THEN FromNat(tp.packets_in_flight + 1)
             ELSE tp.snd_cwnd ]_vars

\* set_state(Loss) with 5 packets in flight has set the cwnd to 6.
C10_Witness ==
  /\ call.op = "set_state"
  /\ call.ca_state = TCP_CA_Loss
  /\ tp.packets_in_flight = 5
  /\ tp.snd_cwnd = FromNat(6)

\* C11 as stated: the switch is skipped on the first 3 cong_control calls
\* of the process (start = 0, 1, 2 on entry: gain and phase keep their
\* values) and is evaluated on the 4th call (start = 3 on entry) and on
\* every later one: phase and gain end as the switch of lines 172-192
\* decides from the phase on entry and from bw and last_bw as they stand
\* at line 171.  Stated for calls without recovery handling.
C11_ThreeWarmUpCalls ==
  [][ call'.op = "cong_control" =>
        IF start < 3
        THEN w'.state = w.state /\ w'.gain = w.gain
        ELSE LET r == GainSwitch([w EXCEPT !.last_bw = w'.last_bw], call'.bw)
             IN  w'.state = r.state /\ w'.gain = r.gain ]_vars

\* C12 as stated: every call made during the warm-up ends with gain 320
\* and phase UP.
C12_WarmUpKeepsProbeUp ==
  (Completed /\ start <= WarmedUp) => w.state = UP /\ w.gain = GainUp

\* C12, amended: a call made during the warm-up ends with gain 320 and
\* phase UP when packet_conservation is false at its end; when it is set
\* (the host entered Recovery in conservative mode and has not left it
\* through an exit edge) and the call runs in conservative mode, the call
\* ends with gain 192 and phase DOWN.
C12_WarmUpUnlessHeld ==
  (Completed /\ start <= WarmedUp) =>
    /\ w.packet_conservation = 0 => (w.state = UP /\ w.gain = GainUp)
    /\ (w.packet_conservation = 1 /\ conservation = 1) =>
         (w.state = DOWN /\ w.gain = GainDown)

\* A warm-up call with a bandwidth on which the switch, had it run, would
\* have left UP (last_bw = bw > 0), ending in UP with gain 320.
C12_Witness ==
  /\ Completed
  /\ start <= WarmedUp
  /\ w.packet_conservation = 0
  /\ call.bw # Zero64
  /\ w.last_bw = call.bw
  /\ w.state = UP
  /\ w.gain = GainUp

\* C13: the counter belongs to the process: every cong_control call adds 1
\* to it, no other callback (init() included) changes it, and a call that
\* finds it above 3 runs the switch even when it is the first call after
\* init() (stated for a call without recovery handling: host not in
\* Recovery).
C13_ProcessWideCounter ==
  [][ /\ call'.op = "cong_control" => start' = start + 1
      /\ call'.op # "cong_control" => start' = start
      /\ ( /\ call.op = "init"
           /\ call'.op = "cong_control"
           /\ start > 3
           /\ icsk_ca_state # TCP_CA_Recovery ) =>
           LET r == GainSwitch([w EXCEPT !.last_bw = w'.last_bw], call'.bw)
           IN  w'.state = r.state /\ w'.gain = r.gain ]_vars

\* The first cong_control call of the connection, made with the counter at
\* 4, has moved the phase to DOWN.
C13_Witness ==
  /\ Completed
  /\ calls = 1
  /\ start = WarmedUp + 1
  /\ w.packet_conservation = 0
  /\ w.state = DOWN
  /\ w.gain = GainDown

\* C14 as stated: a cong_control call that does not cross a cycle boundary
\* leaves curr_bw and last_bw as they were.
C14_OnlyAtBoundary ==
  [][ (call'.op = "cong_control" /\ ~fault' /\ ~call'.is_next) =>
        (w'.curr_bw = w.curr_bw /\ w'.last_bw = w.last_bw) ]_vars

\* C15 as stated: after the warm-up the switch decides from curr_bw and
\* last_bw as they stand after boundary detection (nothing later in the
\* call writes them): phase and gain end as the switch gives them for
\* the phase on entry, curr_bw and last_bw.  Stated for calls without
\* recovery handling.
C15_DecidedByCurrBw ==
  [][ (call'.op = "cong_control" /\ ~fault' /\ start > 3) =>
        LET r == GainSwitch([w EXCEPT !.last_bw = w'.last_bw], w'.curr_bw)
        IN  w'.state = r.state /\ w'.gain = r.gain ]_vars

\* C16 as stated: the cwnd written at line 199 is
\* roundup_to_even(max(2, ceil(bw * min_rtt_us * gain / 256 / 2^24))
\*                 + 3 * TSO segments goal)
\* with the gain the switch left.  Stated for calls without recovery
\* handling, where that gain is the gain at the end of the call.
C16_BaseCwndUsesGain ==
  [][ (call'.op = "cong_control" /\ ~fault') =>
        LET bdp == Mul64(call'.bw, FromNat(w'.min_rtt_us))
            pkts == Shr64(Add64(Shr64(Mul64(bdp, FromNat(w'.gain)), CAL_SCALE),
                                FromNat(BW_UNIT - 1)), BW_SCALE)
            c1 == Max64(FromNat(2), Trunc32(pkts))
            c2 == Add32(c1, FromNat(3 * caohejing_tso_segs_goal(sk, tp')))
            c3 == Add32(c2, FromNat(1))
        IN  call'.base = [c3 EXCEPT ![1] = @ - (@ % 2)] ]_vars

\* C17 as stated: between two resets the filter reports the maximum of
\* the samples of the trailing 10 rounds, so a sample equal to the
\* reported maximum was seen at most 10 rounds ago.
C17_MaxWithinWindow ==
  (Completed /\ ~call.is_next) => w.rtt_cnt - peak_round <= 10

\* C18: in conservative mode, a call that ends with packet_conservation
\* set ends with phase DOWN, gain 192 and cwnd = min(cap, max(L, packets
\* in flight + acked)), L being packets in flight + acked on the entry
\* edge and otherwise the cwnd on entry less the sample's losses, at
\* least 1; the cwnd of line 199 is not kept.
C18_ConservationHold ==
  [][ ( /\ call'.op = "cong_control"
        /\ conservation = 1
        /\ w'.packet_conservation = 1 ) =>
        LET fpa == FlightPlusAcked(tp', call'.rs)
            entry == /\ call'.ca_state = TCP_CA_Recovery
                     /\ call'.prev_ca_state # TCP_CA_Recovery
            L == IF entry THEN fpa ELSE LossAdjust(tp.snd_cwnd, call'.rs)
        IN  /\ w'.state = DOWN
            /\ w'.gain = GainDown
            /\ tp'.snd_cwnd = Min64(Max64(L, fpa), tp'.snd_cwnd_clamp) ]_vars

\* A call after the entry edge, with a loss in its sample, that ended with
\* the held cwnd and not with the cwnd of line 199.
C18_Witness ==
  /\ Completed
  /\ conservation = 1
  /\ w.packet_conservation = 1
  /\ call.prev_ca_state = TCP_CA_Recovery
  /\ call.rs.losses > 0
  /\ tp.snd_cwnd = FlightPlusAcked(tp, call.rs)
  /\ tp.snd_cwnd # call.base
  /\ w.state = DOWN

\* C19 as stated: after a cong_control call that ran in conservative mode
\* with the host below Recovery, packet_conservation is false.
C19_NoHoldOutsideRecovery ==
  (Completed /\ conservation = 1 /\ call.ca_state < TCP_CA_Recovery) =>
    w.packet_conservation = 0

\* C20: after the warm-up, a call that crosses a cycle boundary with a
\* positive filter maximum leaves last_bw = curr_bw = that maximum, and
\* ends with phase DOWN and gain 192 unless it takes the recovery exit
\* edge.
C20_BoundaryDrains ==
  ( /\ Completed
    /\ start > WarmedUp
    /\ call.is_next
    /\ call.bw # Zero64 ) =>
    /\ w.last_bw = call.bw
    /\ w.curr_bw = call.bw
    /\ \/ w.state = DOWN /\ w.gain = GainDown
       \/ /\ conservation = 1
          /\ call.prev_ca_state >= TCP_CA_Recovery
          /\ call.ca_state < TCP_CA_Recovery

\* A boundary call, not the first of the connection, made in a mode where
\* only the switch writes the phase; it ended in DOWN.
C20_Witness ==
  /\ Completed
  /\ start > WarmedUp
  /\ calls >= 2
  /\ call.is_next
  /\ call.bw # Zero64
  /\ conservation = 0
  /\ w.last_bw = call.bw
  /\ w.state = DOWN

====
